---- MODULE Spec2Model ----
(***************************************************************************)
(* Model of the multi-file WGSL front end of naga (wgslx fork):            *)
(*   - File and SourceProvider (front/wgsl/mod.rs, source_provider.rs):    *)
(*     line tables, line_index, line_start, line_range, source_at;         *)
(*   - parse_translation_unit / parse_module (front/wgsl/mod.rs): the      *)
(*     work-stack loop that resolves import directives, a second call of   *)
(*     parse_module on the same provider (TwoPassSpec);                    *)
(*   - multi-unit mode as spec.md 4.2 and 4.3 describe it (MultiSpec).     *)
(*                                                                         *)
(* Source text is a sequence of one-byte symbols.  "\n" is the line        *)
(* terminator, "x" a declaration, "!" a token the parser rejects, and      *)
(* every symbol of ImportSyms is one import directive whose raw path is    *)
(* RawPath(symbol).  Paths are sequences of components; << >> is the       *)
(* empty path "", the only path with no parent.                            *)
(***************************************************************************)
EXTENDS Integers, Sequences, FiniteSets, TLC

VARIABLES
    files,      \* the provider's registry: files[id] is the File with that FileId
    entry,      \* FileId handed to parse_module
    handled,    \* parse_translation_unit: HashSet of resolved paths
    stack,      \* parse_translation_unit: Vec<(FileId, Span)>
    unit,       \* parse_translation_unit: translation_unit
    cur,        \* locals of the running loop iteration
    pc,         \* position in parse_module / parse_translation_unit
    parsed,     \* history: FileIds handed to Frontend::parse_into, in order
    outcome,    \* what parse_module returned (or the panic that ended it)
    file,       \* File under test of the File/SourceProvider operations
    res,        \* last File/SourceProvider call and its result
    prev,       \* history: what the previous call of parse_module did, if any
    units,      \* multi-unit mode: the resolver's output sequence of units
    modules     \* multi-unit mode: the map resolved path -> lowered Module

vars == <<files, entry, handled, stack, unit, cur, pc, parsed, outcome, file, res, prev, units, modules>>

resolverVars == <<files, entry, handled, stack, unit, cur, pc, parsed, outcome>>

(***************************************************************************)
(* Bounds                                                                  *)
(***************************************************************************)
MaxFiles == 4       \* files that exist on disk
MaxImports == 2     \* import directives in one file
MaxTotalImports == 3 \* import directives in all files on disk together
MaxSrcLen == 3      \* bytes of the source of the File under test

\* Pops one pass can make at most: the guard that keeps the history finite.
MaxPops == MaxFiles + 2

(***************************************************************************)
(* Option, Span, paths                                                     *)
(***************************************************************************)
None == << >>

Some(x) == <<x>>

Span_new(start, end, file_id) == [start |-> start, end |-> end, file_id |-> file_id]

\* Span::new(0, 0, None) pushed with the entry file.
EntrySpan == Span_new(0, 0, None)

ImportSyms == {"a", "b", "c", "e", "d/a"}

RawPath(sym) == IF sym = "d/a" THEN <<"d", "a">> ELSE <<sym>>

\* Path::parent: None for the empty path, otherwise the path without its
\* last component ("a".parent() is Some("")).
Path_parent(path) ==
    IF path = << >> THEN None ELSE Some(SubSeq(path, 1, Len(path) - 1))

\* Path::join of a relative path: no normalisation.
Path_join(base, rel) == base \o rel

(***************************************************************************)
(* File (mod.rs 49-120, source_provider.rs 29-100)                         *)
(***************************************************************************)
Ok(v) == [tag |-> "Ok", val |-> v]

Err(e) == [tag |-> "Err", val |-> e]

\* A panic (expect on None, slice index out of range, arithmetic overflow
\* in a checked build) ends the call without a returned value.
Panic(what) == [tag |-> "Panic", val |-> what]

LineStartsAtNewline(source) ==
    <<0>> \o SelectSeq([i \in 1 .. Len(source) |-> i - 1],
                       LAMBDA o : source[o + 1] = "\n")

\* codespan_reporting::files::line_starts: 0, then the byte after every "\n".
\* source[i] is the byte at offset i - 1, so the byte after it is offset i.
line_starts(source) ==
    <<0>> \o SelectSeq([i \in 1 .. Len(source) |-> i],
                       LAMBDA i : source[i] = "\n")

File_new(id, path, source) ==
    [id |-> id, path |-> path, source |-> source,
     line_starts |-> line_starts(source)]

\* slice::binary_search over s[lo..hi) (0-based): Ok(index of x) or
\* Err(index where x would be inserted).
RECURSIVE binary_search_in(_, _, _, _)
binary_search_in(s, x, lo, hi) ==
    IF lo >= hi THEN Err(lo)
    ELSE LET mid == lo + ((hi - lo) \div 2)
         IN IF s[mid + 1] = x THEN Ok(mid)
            ELSE IF s[mid + 1] < x THEN binary_search_in(s, x, mid + 1, hi)
            ELSE binary_search_in(s, x, lo, mid)

binary_search(s, x) == binary_search_in(s, x, 0, Len(s))

\* The closure of unwrap_or_else: next_line - 1 on usize.  At 0 the
\* subtraction overflows (a panic, or a wrapped value in an unchecked build).
NextLineMinusOneBug(next_line) == Ok(next_line)

NextLineMinusOne(next_line) ==
    IF next_line = 0 THEN Panic("attempt to subtract with overflow")
    ELSE Ok(next_line - 1)

File_line_index(f, byte_index) ==
    LET r == binary_search(f.line_starts, byte_index)
    IN IF r.tag = "Ok" THEN Ok(r.val) ELSE NextLineMinusOne(r.val)

LineStartCmpBug(line_index, len) ==
    IF line_index < len - 1 THEN "Less"
    ELSE IF line_index = len - 1 THEN "Equal" ELSE "Greater"

\* line_index.cmp(&self.line_starts.len())
LineStartCmp(line_index, len) ==
    IF line_index < len THEN "Less"
    ELSE IF line_index = len THEN "Equal" ELSE "Greater"

File_line_start(f, line_index) ==
    LET len == Len(f.line_starts)
        ord == LineStartCmp(line_index, len)
    IN IF ord = "Less" THEN Ok(f.line_starts[line_index + 1])
       ELSE IF ord = "Equal" THEN Ok(Len(f.source))
       ELSE Err([error |-> "LineTooLarge", given |-> line_index, max |-> len - 1])

NextLineArgBug(line_index) == line_index + 2

\* The argument of the second line_start call of line_range.
NextLineArg(line_index) == line_index + 1

File_line_range(f, line_index) ==
    LET line_start == File_line_start(f, line_index)
    IN IF line_start.tag = "Err" THEN line_start
       ELSE LET next_line_start == File_line_start(f, NextLineArg(line_index))
            IN IF next_line_start.tag = "Err" THEN next_line_start
               ELSE Ok([start |-> line_start.val, end |-> next_line_start.val])

(***************************************************************************)
(* SourceProvider (mod.rs 32-47, source_provider.rs 11-27)                 *)
(***************************************************************************)
\* get: the File registered under id, if any.  FileIds are registry indexes.
Provider_get(fs, id) == IF id \in 1 .. Len(fs) THEN Some(fs[id]) ELSE None

\* The id of the file registered with this path, if any.
Provider_lookup(fs, path) ==
    LET ids == {i \in 1 .. Len(fs) : fs[i].path = path}
    IN IF ids = {} THEN None ELSE Some(CHOOSE i \in ids : TRUE)

\* <str as Index<Span>>::index: source[start..end]; an Index cannot return
\* an error, so offsets outside the text panic.
Slice(source, span) ==
    IF span.start <= span.end /\ span.end <= Len(source)
    THEN Ok(SubSeq(source, span.start + 1, span.end))
    ELSE Panic("byte index out of range")

\* Option<&str> as a tagged value: "None", "Some" (val is the text), or the
\* panic of the slice.
source_at(fs, span) ==
    IF span.file_id = None THEN [tag |-> "None", val |-> << >>]
    ELSE LET f == Provider_get(fs, span.file_id[1])
         IN IF f = None THEN [tag |-> "None", val |-> << >>]
            ELSE LET s == Slice(f[1].source, span)
                 IN IF s.tag = "Ok" THEN [tag |-> "Some", val |-> s.val] ELSE s

(***************************************************************************)
(* Source text and the Parser (external: Parser::parse, called at          *)
(* mod.rs 142)                                                             *)
(***************************************************************************)
\* Sequences over S of length at most n.
SeqUpTo(S, n) == UNION {[1 .. k -> S] : k \in 0 .. n}

\* The texts a file on disk may hold: up to MaxImports import directives and
\* a declaration, or a text the parser rejects.
Sources == {imps \o <<"x">> : imps \in SeqUpTo(ImportSyms, MaxImports)} \cup {<<"!">>}

\* ast::TranslationUnit::default()
TranslationUnit_default == [decls |-> << >>, imports |-> << >>, scratch |-> None]

\* TranslationUnit::reset: drops the state of the file parsed last and keeps
\* the declarations and imports accumulated so far.
TranslationUnit_reset(u) == [u EXCEPT !.scratch = None]

\* The byte range of the symbol at source[i], in file file_id.
SymSpan(i, file_id) == Span_new(i - 1, i, Some(file_id))

\* Parser::parse(unit, source, file_id): appends the declarations and the
\* import directives of source to unit, or fails at a token it rejects.
Parser_parse(u, source, file_id) ==
    LET idx == [i \in 1 .. Len(source) |-> i]
        bad == SelectSeq(idx, LAMBDA i : source[i] = "!")
        decls == SelectSeq(idx, LAMBDA i : source[i] = "x")
        imps == SelectSeq(idx, LAMBDA i : source[i] \in ImportSyms)
    IN IF bad # << >>
       THEN Err([error |-> "Unexpected", span |-> SymSpan(bad[1], file_id)])
       ELSE Ok([decls |-> u.decls \o [k \in 1 .. Len(decls) |-> SymSpan(decls[k], file_id)],
                imports |-> u.imports \o
                    [k \in 1 .. Len(imps) |->
                        [path |-> RawPath(source[imps[k]]),
                         span |-> SymSpan(imps[k], file_id),
                         resolved |-> None]],
                scratch |-> Some(file_id)])

\* Frontend::parse_into
Frontend_parse_into(u, f) == Parser_parse(u, f.source, f.id)

\* Import::resolve(parent_path): the raw path joined to the parent directory.
Import_resolve(import, parent_path) == Path_join(parent_path, import.path)

(***************************************************************************)
(* parse_module and parse_translation_unit (mod.rs 146-209)                *)
(***************************************************************************)
NoOutcome == [tag |-> "none", val |-> << >>]

\* The empty map of lowered Modules.
NoModules == << >>

\* No call of parse_module has returned yet.
NoPrev == None

HashSet_kept(old) == old

\* HashSet::new(): the set a call starts with, whatever an earlier call left.
HashSet_new(old) == {}

IdleCur == [file_id |-> 0, span |-> EntrySpan, parent_path |-> None, idx |-> 0]

\* Error::BadPath { span }
BadPath(span) == [error |-> "BadPath", span |-> span]

\* The span a failed provider.visit is reported with: .ok_or(Error::BadPath { span })
\* names the span popped with the current file, not import.span.
VisitErrorSpan(popped, import) == popped

PropagateSwallow(r, next) == next

\* The ? operator: an Err returns from the function, anything else goes on.
Propagate(r, next) == IF r.tag = "Err" THEN "returned" ELSE next

HandledContainsAll(h, path) == TRUE

HandledContainsNever(h, path) == FALSE

\* handled.contains(&path)
HandledContains(h, path) == path \in h

HandledInsertNone(h, path) == h

\* handled.insert(path)
HandledInsert(h, path) == h \cup {path}

StackFront(s) == s[1]

\* stack.pop(): the last element.
StackTop(s) == s[Len(s)]

StackRest(s) == SubSeq(s, 1, Len(s) - 1)

StackPushNextId(s, file_id, span) == Append(s, [file_id |-> file_id + 1, span |-> span])

StackPush(s, file_id, span) == Append(s, [file_id |-> file_id, span |-> span])

\* One turn of `while let Some((file_id, span)) = stack.pop()` up to the for
\* loop: reset, provider.get, parse_into, path.parent().
Pop ==
    /\ pc = "loop"
    /\ stack # << >>
    /\ Len(parsed) < MaxPops
    /\ LET top == StackTop(stack)
           u0 == TranslationUnit_reset(unit)
           got == Provider_get(files, top.file_id)
       IN /\ stack' = StackRest(stack)
          /\ IF got = None
             THEN /\ outcome' = Panic("File not found in source provider")
                  /\ pc' = "returned"
                  /\ unit' = u0
                  /\ cur' = [IdleCur EXCEPT !.file_id = top.file_id, !.span = top.span]
                  /\ UNCHANGED parsed
             ELSE LET f == got[1]
                      r == Frontend_parse_into(u0, f)
                      parent == Path_parent(f.path)
                      p == IF parent = None THEN Err(BadPath(top.span)) ELSE Ok(parent[1])
                  IN /\ parsed' = Append(parsed, f.id)
                     /\ unit' = IF r.tag = "Ok" THEN r.val ELSE u0
                     /\ cur' = [file_id |-> top.file_id, span |-> top.span,
                                parent_path |-> parent, idx |-> 1]
                     /\ IF r.tag = "Err"
                        THEN /\ outcome' = r
                             /\ pc' = Propagate(r, "imports")
                        ELSE /\ outcome' = IF p.tag = "Err" THEN p ELSE outcome
                             /\ pc' = Propagate(p, "imports")
    /\ UNCHANGED <<files, entry, handled, file, res, prev, units, modules>>

\* The import the for loop is at.
CurImport == unit.imports[cur.idx]

CurPath == Import_resolve(CurImport, cur.parent_path[1])

InFor ==
    /\ pc = "imports"
    /\ cur.parent_path # None
    /\ cur.idx <= Len(unit.imports)

Resolved == [unit EXCEPT !.imports[cur.idx].resolved = Some(CurPath)]

\* handled.contains(&path): continue
ImportHandled ==
    /\ InFor
    /\ HandledContains(handled, CurPath)
    /\ unit' = Resolved
    /\ cur' = [cur EXCEPT !.idx = @ + 1]
    /\ UNCHANGED <<files, entry, handled, stack, pc, parsed, outcome, file, res, prev, units, modules>>

\* provider.visit of a path that is registered already: the same FileId again.
ImportVisitKnown ==
    /\ InFor
    /\ ~HandledContains(handled, CurPath)
    /\ Provider_lookup(files, CurPath) # None
    /\ unit' = Resolved
    /\ stack' = StackPush(stack, Provider_lookup(files, CurPath)[1], CurImport.span)
    /\ handled' = HandledInsert(handled, CurPath)
    /\ cur' = [cur EXCEPT !.idx = @ + 1]
    /\ UNCHANGED <<files, entry, pc, parsed, outcome, file, res, prev, units, modules>>

\* Whether one more file can be on a disk of MaxFiles files.  (The empty
\* path names no file, and a path an earlier call did not find is not there.)
CanExist(path) ==
    /\ path # << >>
    /\ Len(files) < MaxFiles
    /\ prev # NoPrev => path \notin prev[1].missing

\* The number of import directives in a text.
ImportCount(source) == Cardinality({i \in 1 .. Len(source) : source[i] \in ImportSyms})

RECURSIVE TotalImports(_)
TotalImports(fs) ==
    IF fs = << >> THEN 0 ELSE ImportCount(fs[1].source) + TotalImports(Tail(fs))

\* The texts the next file read from disk may hold.
NewSources == {s \in Sources : TotalImports(files) + ImportCount(s) <= MaxTotalImports}

\* provider.visit of a path seen for the first time that is on disk: the file
\* is read and registered under the next FileId.
ImportVisitNew ==
    /\ InFor
    /\ ~HandledContains(handled, CurPath)
    /\ Provider_lookup(files, CurPath) = None
    /\ CanExist(CurPath)
    /\ \E source \in NewSources :
          files' = Append(files, File_new(Len(files) + 1, CurPath, source))
    /\ unit' = Resolved
    /\ stack' = StackPush(stack, Len(files) + 1, CurImport.span)
    /\ handled' = HandledInsert(handled, CurPath)
    /\ cur' = [cur EXCEPT !.idx = @ + 1]
    /\ UNCHANGED <<entry, pc, parsed, outcome, file, res, prev, units, modules>>

\* provider.visit returns None: the path cannot be located.
ImportVisitMissing ==
    /\ InFor
    /\ ~HandledContains(handled, CurPath)
    /\ Provider_lookup(files, CurPath) = None
    /\ LET r == Err(BadPath(VisitErrorSpan(cur.span, CurImport)))
       IN /\ outcome' = r
          /\ pc' = Propagate(r, "imports")
    /\ unit' = Resolved
    /\ UNCHANGED <<files, entry, handled, stack, cur, parsed, file, res, prev, units, modules>>

\* The for loop is through: back to the top of the while loop.
EndFor ==
    /\ pc = "imports"
    /\ cur.parent_path # None
    /\ cur.idx > Len(unit.imports)
    /\ pc' = "loop"
    /\ cur' = IdleCur
    /\ UNCHANGED <<files, entry, handled, stack, unit, parsed, outcome, file, res, prev, units, modules>>

\* The stack is empty: parse_translation_unit returns Ok(translation_unit).
LoopExit ==
    /\ pc = "loop"
    /\ stack = << >>
    /\ pc' = "lower"
    /\ UNCHANGED <<files, entry, handled, stack, unit, cur, parsed, outcome, file, res, prev, units, modules>>

\* What Index::generate and Lowerer::lower (external) may answer.
LowerResults(u) ==
    {Ok([module |-> u.decls]),
     Err([error |-> "IndexError", span |-> EntrySpan]),
     Err([error |-> "LowerError", span |-> EntrySpan])}

\* Index::generate and Lowerer::lower are functions of the unit: a unit an
\* earlier call lowered gets the same answer again.
LowerAnswers(u) ==
    IF /\ prev # NoPrev
       /\ prev[1].unit.decls = u.decls
       /\ prev[1].outcome \in LowerResults(u)
    THEN {prev[1].outcome}
    ELSE LowerResults(u)

\* parse_module: lower(&unit), then Ok(module) or the error.
Lower ==
    /\ pc = "lower"
    /\ \E r \in LowerAnswers(unit) : outcome' = r
    /\ pc' = "returned"
    /\ UNCHANGED <<files, entry, handled, stack, unit, cur, parsed, file, res, prev, units, modules>>

EntryPaths == {<< >>, <<"a">>}

IdleFile == File_new(1, <<"a">>, << >>)

IdleRes == [op |-> "none", arg |-> << >>, out |-> NoOutcome]

\* parse_module(provider, id) is called with its entry file registered.
Init ==
    /\ \E path \in EntryPaths, source \in Sources :
          files = <<File_new(1, path, source)>>
    /\ entry = 1
    /\ handled = HashSet_new({})
    /\ stack = <<[file_id |-> entry, span |-> EntrySpan]>>
    /\ unit = TranslationUnit_default
    /\ cur = IdleCur
    /\ pc = "loop"
    /\ parsed = << >>
    /\ outcome = NoOutcome
    /\ file = IdleFile
    /\ res = IdleRes
    /\ prev = NoPrev
    /\ units = << >>
    /\ modules = NoModules

Next ==
    \/ Pop
    \/ ImportHandled
    \/ ImportVisitKnown
    \/ ImportVisitNew
    \/ ImportVisitMissing
    \/ EndFor
    \/ LoopExit
    \/ Lower

Spec == Init /\ [][Next]_vars

\* The loop is sequential code: whatever step is enabled is taken.
FairSpec == Spec /\ WF_vars(Next)

\* The path the call that just returned asked the provider for in vain.
MissingPaths ==
    IF /\ outcome.tag = "Err"
       /\ outcome.val.error = "BadPath"
       /\ cur.parent_path # None
    THEN {CurPath} ELSE {}

\* parse_module has returned and is called once more with the same provider
\* and the same entry FileId: handled, stack and translation_unit are locals
\* of the new call (mod.rs 171-174), the provider keeps its files.
CallAgain ==
    /\ pc = "returned"
    /\ prev = NoPrev
    /\ prev' = Some([parsed |-> parsed, outcome |-> outcome, unit |-> unit,
                     missing |-> MissingPaths])
    /\ handled' = HashSet_new(handled)
    /\ stack' = <<[file_id |-> entry, span |-> EntrySpan]>>
    /\ unit' = TranslationUnit_default
    /\ cur' = IdleCur
    /\ pc' = "loop"
    /\ parsed' = << >>
    /\ outcome' = NoOutcome
    /\ UNCHANGED <<files, entry, file, res, units, modules>>

NextTwoPass ==
    \/ Next
    \/ CallAgain

TwoPassSpec == Init /\ [][NextTwoPass]_vars

(***************************************************************************)
(* Multi-unit mode (spec 4.2 step 4, 4.3): one TranslationUnit per file,   *)
(* lowered in reverse of the resolver's output order                       *)
(***************************************************************************)
\* Steps 2-4: pop, get the file, parse it into a brand-new TranslationUnit.
MultiPop ==
    /\ pc = "mloop"
    /\ stack # << >>
    /\ Len(parsed) < MaxPops
    /\ LET top == StackTop(stack)
           f == files[top.file_id]
           r == Frontend_parse_into(TranslationUnit_default, f)
           parent == Path_parent(f.path)
           p == IF parent = None THEN Err(BadPath(top.span)) ELSE Ok(parent[1])
       IN /\ stack' = StackRest(stack)
          /\ parsed' = Append(parsed, f.id)
          /\ unit' = IF r.tag = "Ok" THEN r.val ELSE TranslationUnit_default
          /\ cur' = [file_id |-> top.file_id, span |-> top.span,
                     parent_path |-> parent, idx |-> 1]
          /\ IF r.tag = "Err"
             THEN /\ outcome' = r
                  /\ pc' = Propagate(r, "mimports")
             ELSE /\ outcome' = IF p.tag = "Err" THEN p ELSE outcome
                  /\ pc' = Propagate(p, "mimports")
    /\ UNCHANGED <<files, entry, handled, file, res, prev, units, modules>>

\* Step 5 is at an import directive of the just-parsed unit.
MultiInFor ==
    /\ pc = "mimports"
    /\ cur.idx <= Len(unit.imports)

\* Step 6: the resolved path is visited already.
MultiImportHandled ==
    /\ MultiInFor
    /\ HandledContains(handled, CurPath)
    /\ unit' = Resolved
    /\ cur' = [cur EXCEPT !.idx = @ + 1]
    /\ UNCHANGED <<files, entry, handled, stack, pc, parsed, outcome, file, res, prev,
                   units, modules>>

\* Step 7 for a path the provider has registered already.
MultiImportVisitKnown ==
    /\ MultiInFor
    /\ ~HandledContains(handled, CurPath)
    /\ Provider_lookup(files, CurPath) # None
    /\ unit' = Resolved
    /\ stack' = StackPush(stack, Provider_lookup(files, CurPath)[1], CurImport.span)
    /\ handled' = HandledInsert(handled, CurPath)
    /\ cur' = [cur EXCEPT !.idx = @ + 1]
    /\ UNCHANGED <<files, entry, pc, parsed, outcome, file, res, prev, units, modules>>

\* Step 7 for a path the provider reads from disk and registers.
MultiImportVisitNew ==
    /\ MultiInFor
    /\ ~HandledContains(handled, CurPath)
    /\ Provider_lookup(files, CurPath) = None
    /\ CanExist(CurPath)
    /\ \E source \in NewSources :
          files' = Append(files, File_new(Len(files) + 1, CurPath, source))
    /\ unit' = Resolved
    /\ stack' = StackPush(stack, Len(files) + 1, CurImport.span)
    /\ handled' = HandledInsert(handled, CurPath)
    /\ cur' = [cur EXCEPT !.idx = @ + 1]
    /\ UNCHANGED <<entry, pc, parsed, outcome, file, res, prev, units, modules>>

\* Step 5: the path does not exist in the provider: BadPath { span: import's span }.
MultiImportVisitMissing ==
    /\ MultiInFor
    /\ ~HandledContains(handled, CurPath)
    /\ Provider_lookup(files, CurPath) = None
    /\ outcome' = Err(BadPath(CurImport.span))
    /\ pc' = "returned"
    /\ unit' = Resolved
    /\ UNCHANGED <<files, entry, handled, stack, cur, parsed, file, res, prev, units, modules>>

\* Step 4, end: the completed unit, with its origin path, joins the output.
MultiEndFor ==
    /\ pc = "mimports"
    /\ cur.idx > Len(unit.imports)
    /\ units' = Append(units, [path |-> files[cur.file_id].path,
                               file_id |-> cur.file_id,
                               decls |-> unit.decls,
                               imports |-> unit.imports])
    /\ pc' = "mloop"
    /\ cur' = IdleCur
    /\ UNCHANGED <<files, entry, handled, stack, unit, parsed, outcome, file, res, prev,
                   modules>>

\* Step 8: the stack is empty, the units go to the orchestrator.
MultiLoopExit ==
    /\ pc = "mloop"
    /\ stack = << >>
    /\ pc' = "mlower"
    /\ cur' = [IdleCur EXCEPT !.idx = 1]
    /\ UNCHANGED <<files, entry, handled, stack, unit, parsed, outcome, file, res, prev,
                   units, modules>>

Reverse(s) == [i \in 1 .. Len(s) |-> s[Len(s) + 1 - i]]

LowerOrderForward(us) == us

\* 4.3: the units are processed in reverse of the resolver's output order.
LowerOrder(us) == Reverse(us)

\* The unit the orchestrator is at.
NextUnit == LowerOrder(units)[cur.idx]

\* The resolved paths of the imports a unit declares.
UnitImports(u) == {u.imports[k].resolved[1] : k \in 1 .. Len(u.imports)}

\* The paths whose Module is in the map.
Lowered == {modules[i].path : i \in 1 .. Len(modules)}

\* 4.3: index and lower one unit with the Modules of its imports, and insert
\* its Module, keyed by its own path, before the next unit is processed.
LowerUnit ==
    /\ pc = "mlower"
    /\ cur.idx <= Len(units)
    /\ UnitImports(NextUnit) \subseteq Lowered
    /\ \E r \in LowerResults(NextUnit) :
          IF r.tag = "Ok"
          THEN /\ modules' = IF NextUnit.path \in Lowered THEN modules
                             ELSE Append(modules, [path |-> NextUnit.path,
                                                   module |-> r.val.module])
               /\ cur' = [cur EXCEPT !.idx = @ + 1]
               /\ UNCHANGED <<outcome, pc>>
          ELSE /\ outcome' = r
               /\ pc' = "returned"
               /\ UNCHANGED <<modules, cur>>
    /\ UNCHANGED <<files, entry, handled, stack, unit, parsed, file, res, prev, units>>

\* 4.3: a unit needs an import whose Module is not in the map yet.
LowerUnitMissingImport ==
    /\ pc = "mlower"
    /\ cur.idx <= Len(units)
    /\ ~(UnitImports(NextUnit) \subseteq Lowered)
    /\ outcome' = Err([error |-> "MissingModule", span |-> EntrySpan])
    /\ pc' = "returned"
    /\ UNCHANGED <<files, entry, handled, stack, unit, cur, parsed, file, res, prev,
                   units, modules>>

\* Every unit is lowered: the Modules are returned.
MultiReturn ==
    /\ pc = "mlower"
    /\ cur.idx > Len(units)
    /\ outcome' = Ok([modules |-> modules])
    /\ pc' = "returned"
    /\ UNCHANGED <<files, entry, handled, stack, unit, cur, parsed, file, res, prev,
                   units, modules>>

InitMulti ==
    /\ \E path \in EntryPaths, source \in Sources :
          files = <<File_new(1, path, source)>>
    /\ entry = 1
    /\ handled = HashSet_new({})
    /\ stack = <<[file_id |-> entry, span |-> EntrySpan]>>
    /\ unit = TranslationUnit_default
    /\ cur = IdleCur
    /\ pc = "mloop"
    /\ parsed = << >>
    /\ outcome = NoOutcome
    /\ file = IdleFile
    /\ res = IdleRes
    /\ prev = NoPrev
    /\ units = << >>
    /\ modules = NoModules

NextMulti ==
    \/ MultiPop
    \/ MultiImportHandled
    \/ MultiImportVisitKnown
    \/ MultiImportVisitNew
    \/ MultiImportVisitMissing
    \/ MultiEndFor
    \/ MultiLoopExit
    \/ LowerUnit
    \/ LowerUnitMissingImport
    \/ MultiReturn

MultiSpec == InitMulti /\ [][NextMulti]_vars

(***************************************************************************)
(* Calls of the File and SourceProvider operations on a registered File    *)
(***************************************************************************)
\* The texts of the File under test.
TestSources == SeqUpTo({"x", "\n"}, MaxSrcLen)

\* A second registered file, so that a span can name the other file.
OtherFile == File_new(2, <<"b">>, <<"\n", "x">>)

InitFile ==
    /\ \E source \in TestSources : file = File_new(1, <<"a">>, source)
    /\ files = <<file, OtherFile>>
    /\ entry = 1
    /\ handled = {}
    /\ stack = << >>
    /\ unit = TranslationUnit_default
    /\ cur = IdleCur
    /\ pc = "file"
    /\ parsed = << >>
    /\ outcome = NoOutcome
    /\ res = IdleRes
    /\ prev = NoPrev
    /\ units = << >>
    /\ modules = NoModules

CallLineIndex ==
    /\ pc = "file"
    /\ \E byte_index \in 0 .. MaxSrcLen + 2 :
          res' = [op |-> "line_index", arg |-> byte_index,
                  out |-> File_line_index(file, byte_index)]
    /\ UNCHANGED <<resolverVars, file, prev, units, modules>>

CallLineRange ==
    /\ pc = "file"
    /\ \E line_index \in 0 .. MaxSrcLen + 3 :
          res' = [op |-> "line_range", arg |-> line_index,
                  out |-> File_line_range(file, line_index)]
    /\ UNCHANGED <<resolverVars, file, prev, units, modules>>

\* The spans handed to source_at: any offsets, no file, either registered
\* file, or a FileId that was never registered.
TestSpans ==
    {Span_new(s, e, id) :
        s \in 0 .. MaxSrcLen + 1, e \in 0 .. MaxSrcLen + 1,
        id \in {None, Some(1), Some(2), Some(3)}}

CallSourceAt ==
    /\ pc = "file"
    /\ \E span \in TestSpans :
          res' = [op |-> "source_at", arg |-> span, out |-> source_at(files, span)]
    /\ UNCHANGED <<resolverVars, file, prev, units, modules>>

NextFile ==
    \/ CallLineIndex
    \/ CallLineRange
    \/ CallSourceAt

FileSpec == InitFile /\ [][NextFile]_vars

(***************************************************************************)
(* Claims about File and SourceProvider, checked under FileSpec            *)
(***************************************************************************)
\* 0-based element i of the line table of the File under test.
LineStartAt(i) == file.line_starts[i + 1]

NumLines == Len(file.line_starts)

\* C7: line_index(byte_offset) is, for every byte offset >= 0, the greatest
\* index i with line_starts[i] <= byte_offset (a line start maps to its own
\* line, an offset past the end of the file to the last line), and the
\* next_line - 1 of the code never underflows.
C7_LineIndexGreatest ==
    res.op = "line_index" =>
        /\ res.out.tag = "Ok"
        /\ res.out.val \in 0 .. NumLines - 1
        /\ LineStartAt(res.out.val) <= res.arg
        /\ \A j \in 0 .. NumLines - 1 : LineStartAt(j) <= res.arg => j <= res.out.val
        /\ \A i \in 0 .. NumLines - 1 :
              File_line_index(file, LineStartAt(i)) = Ok(i)

\* An offset past the end of a file of several lines was mapped to the last line.
C7_Witness ==
    /\ res.op = "line_index"
    /\ NumLines >= 2
    /\ res.arg > Len(file.source)
    /\ res.out = Ok(NumLines - 1)

\* C8 as stated: line_range(line_index) fails exactly when
\* line_index > line_starts.length.
C8_FailsOnlyAboveLength ==
    res.op = "line_range" => (res.out.tag = "Err" <=> res.arg > NumLines)

\* C8 amended: line_range(line_index) fails with LineTooLarge exactly when
\* line_index >= line_starts.length, and returns a range for every smaller index.
C8_FailsFromLength ==
    res.op = "line_range" =>
        /\ res.out.tag \in {"Ok", "Err"}
        /\ res.out.tag = "Err" <=> res.arg >= NumLines
        /\ res.out.tag = "Err" => res.out.val.error = "LineTooLarge"

\* line_range was called with line_index = line_starts.length and failed.
C8_Witness ==
    /\ res.op = "line_range"
    /\ res.arg = NumLines
    /\ res.out.tag = "Err"

\* The range C9 expects for line i of the File under test.
ExpectedRange(i) ==
    [start |-> LineStartAt(i),
     end |-> IF i + 1 < NumLines THEN LineStartAt(i + 1) ELSE Len(file.source)]

\* C9: for every existing line (line_index < number of line starts)
\* line_range returns [line_starts[line_index], end) with end the next line
\* start if there is one and len(source) otherwise; the ranges of consecutive
\* lines are adjacent and together cover [0, len(source)).
C9_LineRangeOfExistingLine ==
    /\ (res.op = "line_range" /\ res.arg < NumLines) =>
            res.out = Ok(ExpectedRange(res.arg))
    /\ \A i \in 0 .. NumLines - 1 : File_line_range(file, i).tag = "Ok"
    /\ File_line_range(file, 0).val.start = 0
    /\ File_line_range(file, NumLines - 1).val.end = Len(file.source)
    /\ \A i \in 0 .. NumLines - 2 :
          /\ File_line_range(file, i).val.end = File_line_range(file, i + 1).val.start
          /\ File_line_range(file, i).val.start < File_line_range(file, i).val.end

\* The range of the last line of a file of several lines was returned; it
\* ends at len(source).
C9_Witness ==
    /\ res.op = "line_range"
    /\ NumLines >= 2
    /\ res.arg = NumLines - 1
    /\ res.out.tag = "Ok"
    /\ res.out.val.end = Len(file.source)
    /\ res.out.val.start < res.out.val.end

\* Whether source_at must give the text of this span.
SpanInFile(span) ==
    /\ span.file_id # None
    /\ span.file_id[1] \in 1 .. Len(files)
    /\ span.start <= span.end
    /\ span.end <= Len(files[span.file_id[1]].source)

\* C10: source_at(span) never panics; it returns the failure value when the
\* span has no file_id, names an unknown file, or has offsets outside the
\* file's source (start > end or end > len(source)), and source[start..end]
\* of the file named by span.file_id otherwise.
C10_SourceAtNeverPanics ==
    res.op = "source_at" =>
        /\ res.out.tag # "Panic"
        /\ ~SpanInFile(res.arg) => res.out.tag = "None"
        /\ SpanInFile(res.arg) =>
              /\ res.out.tag = "Some"
              /\ res.out.val = SubSeq(files[res.arg.file_id[1]].source,
                                      res.arg.start + 1, res.arg.end)

\* The line table of f is well formed for the text of f.
LineTableWellFormed(f) ==
    /\ f.line_starts[1] = 0
    /\ \A i \in 1 .. Len(f.line_starts) - 1 : f.line_starts[i] < f.line_starts[i + 1]
    /\ \A i \in 1 .. Len(f.line_starts) : f.line_starts[i] <= Len(f.source)

\* C11: every File built by File::new has line_starts[0] = 0, a strictly
\* increasing line_starts and every entry <= len(source), whatever the text;
\* and no operation on a File (line_index, line_range, source_at) changes the
\* path, source or line_starts of a registered File.
C11_FileWellFormedAndImmutable ==
    [][/\ LineTableWellFormed(file)
       /\ \A id \in 1 .. Len(files) : LineTableWellFormed(files[id])
       /\ file' = file
       /\ Len(files') >= Len(files)
       /\ \A id \in 1 .. Len(files) :
             /\ files'[id].path = files[id].path
             /\ files'[id].source = files[id].source
             /\ files'[id].line_starts = files[id].line_starts
      ]_vars

\* An operation ran on a File whose text starts and ends with a line
\* terminator: its line table starts 0, 1 and ends at len(source).
C11_Witness ==
    /\ res.op # "none"
    /\ Len(file.source) >= 2
    /\ file.source[1] = "\n"
    /\ file.source[Len(file.source)] = "\n"
    /\ file.line_starts[2] = 1
    /\ file.line_starts[Len(file.line_starts)] = Len(file.source)

(***************************************************************************)
(* Claims about parse_module and parse_translation_unit, checked under     *)
(* Spec (FairSpec for termination)                                         *)
(***************************************************************************)
\* The FileIds handed to parse_into so far.
ParsedSet == {parsed[i] : i \in 1 .. Len(parsed)}

\* C1: in one pass no resolved path is parsed more than once: parse_into is
\* invoked at most once on every file, the entry file included.
C1_ParsedAtMostOnce ==
    \A i, j \in 1 .. Len(parsed) :
        files[parsed[i]].path = files[parsed[j]].path => i = j

\* C2: for every finite import graph, cyclic ones and self-imports included,
\* the work-stack loop terminates: the stack becomes empty or the pass
\* returns an error after finitely many pops.
C2_LoopTerminates == <>(pc \in {"lower", "returned"})

\* The loop ran to an empty stack on an import graph with a cycle: the entry
\* file was imported back and parsed again.
C2_Witness ==
    /\ pc = "lower"
    /\ stack = << >>
    /\ Len(parsed) > Cardinality(ParsedSet)

\* The pass failed with BadPath inside the for loop (a failed provider.visit).
VisitFailed ==
    /\ pc = "returned"
    /\ outcome.tag = "Err"
    /\ outcome.val.error = "BadPath"
    /\ cur.parent_path # None

\* C3: when an import directive points at a path the provider cannot locate,
\* the pass fails with BadPath whose span is that import directive's own
\* span, so its file identity is the importing file's.
C3_BadPathHasImportSpan ==
    VisitFailed =>
        /\ outcome.val.span = CurImport.span
        /\ outcome.val.span.file_id # None

\* The files whose declarations are in the translation unit.
DeclFiles(u) == {u.decls[k].file_id[1] : k \in 1 .. Len(u.decls)}

\* The paths the import directives in the text of file id point at, each
\* taken relative to the directory of that file.
ImportTargets(id) ==
    LET f == files[id]
    IN {Path_join(Path_parent(f.path)[1], RawPath(f.source[i])) :
            i \in {k \in 1 .. Len(f.source) : f.source[k] \in ImportSyms}}

\* C4: on a successful single-unit pass the merged translation unit handed
\* to lowering holds the declarations of the entry file and of every file
\* reachable from it through import directives (every target of an import
\* of a file in the unit is a registered file that is in the unit too).
C4_MergedUnitComplete ==
    pc = "lower" =>
        /\ entry \in DeclFiles(unit)
        /\ \A id \in DeclFiles(unit) :
              \A target \in ImportTargets(id) :
                  \E g \in DeclFiles(unit) : files[g].path = target

\* A pass over an entry file and two more files reached lowering with the
\* declarations of all three.
C4_Witness ==
    /\ pc = "lower"
    /\ Cardinality(DeclFiles(unit)) >= 3
    /\ \E id \in DeclFiles(unit) \ {entry} : ImportTargets(id) # {}

\* C5: the pass is fail-fast.  A file the parser rejects, a failed
\* path.parent() or provider.visit, or a failed lower() makes parse_module
\* return that error at once; after an error nothing is popped, parsed or
\* lowered, and no Module is returned.
C5_FailFast ==
    [][/\ outcome.tag = "Err" => UNCHANGED resolverVars
       /\ (parsed' # parsed /\ "!" \in {files[parsed'[Len(parsed')]].source[i] :
                                   i \in 1 .. Len(files[parsed'[Len(parsed')]].source)})
             => (outcome'.tag = "Err" /\ pc' = "returned")
       /\ outcome'.tag = "Err" => pc' = "returned"
       /\ (outcome'.tag = "Ok" /\ outcome.tag # "Ok") => (pc = "lower" /\ outcome.tag = "none")
      ]_vars

\* An imported file was rejected by the parser while other files were still
\* on the work stack: the pass has returned the error and they stay there.
C5_Witness ==
    /\ pc = "returned"
    /\ outcome.tag = "Err"
    /\ outcome.val.error = "Unexpected"
    /\ Len(parsed) >= 2
    /\ stack # << >>

\* The path an import directive points at, relative to the directory of the
\* file that declares it.
OwnTarget(import) ==
    Path_join(Path_parent(files[import.span.file_id[1]].path)[1], import.path)

\* The import graph read so far has a cycle: some import directive points
\* back at the entry file, through which its own file was reached.
EntryImportedBack ==
    /\ Path_parent(files[entry].path) # None
    /\ \E k \in 1 .. Len(unit.imports) : OwnTarget(unit.imports[k]) = files[entry].path

\* C6: on a cyclic import graph in which every import path exists in the
\* provider and every file has a parent directory, the pass does not fail
\* with BadPath: a provider.visit that fails is for the path some import
\* directive points at from its own file, never for anything else.
C6_CycleRaisesNoBadPath ==
    (EntryImportedBack /\ VisitFailed) => CurPath = OwnTarget(CurImport)

\* C12: while a popped file F is processed, the for loop resolves exactly the
\* import directives of the just-parsed text of F against the parent
\* directory of F, never a directive declared by a file parsed earlier; so
\* every path that is visited, enqueued or reported as BadPath is the target
\* some import directive has relative to its declaring file.
C12_ResolvesOnlyOwnImports ==
    /\ InFor => CurImport.span.file_id = Some(cur.file_id)
    /\ \A path \in handled :
          \E k \in 1 .. Len(unit.imports) : OwnTarget(unit.imports[k]) = path
    /\ VisitFailed => CurPath = OwnTarget(CurImport)

\* The pushes made onto the work stack so far: what is on it and what was
\* popped from it.
Pushes == Len(stack) + Len(parsed)

\* C13: within one pass a resolved import path is enqueued at most once.  A
\* push made for an import adds a path that was not in the visited set and
\* is in it afterwards; the visited set only grows; an import whose resolved
\* path is visited already causes no provider.visit (no file is registered,
\* no BadPath is returned) and no push; so the pushes number at most
\* 1 + the distinct resolved import paths.
C13_EnqueuedAtMostOnce ==
    [][/\ handled \subseteq handled'
       /\ Len(stack') > Len(stack) =>
             /\ InFor
             /\ stack' = StackPush(stack, StackTop(stack').file_id, CurImport.span)
             /\ files'[StackTop(stack').file_id].path = CurPath
             /\ CurPath \notin handled
             /\ handled' = handled \cup {CurPath}
       /\ (InFor /\ CurPath \in handled) =>
             /\ stack' = stack
             /\ files' = files
             /\ handled' = handled
             /\ outcome' = outcome
             /\ pc' = pc
       /\ Pushes <= 1 + Cardinality(handled)
       /\ Pushes' <= 1 + Cardinality(handled')
      ]_vars

\* A for loop is through in which two import directives resolved to the same
\* path: the first was enqueued, the second skipped.
C13_Witness ==
    /\ pc = "imports"
    /\ cur.parent_path # None
    /\ cur.idx = Len(unit.imports) + 1
    /\ \E i, j \in 1 .. Len(unit.imports) :
          /\ i < j
          /\ unit.imports[i].resolved = unit.imports[j].resolved
          /\ unit.imports[i].resolved[1] \in handled
    /\ stack # << >>
    /\ Pushes = 1 + Cardinality(handled)

\* The targets of the import directives in the text of file id, in the
\* order of declaration.
DeclaredTargets(id) ==
    LET f == files[id]
        imps == SelectSeq([i \in 1 .. Len(f.source) |-> i],
                          LAMBDA i : f.source[i] \in ImportSyms)
    IN [k \in 1 .. Len(imps) |->
            Path_join(Path_parent(f.path)[1], RawPath(f.source[imps[k]]))]

\* The last element of a sequence of targets that does not repeat an earlier
\* one: the import that is pushed last.
LastPushed(targets) ==
    LET new == {k \in 1 .. Len(targets) : \A j \in 1 .. k - 1 : targets[j] # targets[k]}
    IN targets[CHOOSE k \in new : \A j \in new : j <= k]

\* C14: files are parsed in LIFO (depth-first) order.  The work stack
\* changes only at its top: a push appends, and the file parsed next is the
\* one pushed last, so whatever is discovered beneath an import is parsed
\* before the sibling declared before it; of the imports of the entry file
\* that are pushed, the one declared last is the first to be parsed.
C14_ParsedInLifoOrder ==
    [][/\ Len(stack') > Len(stack) =>
             /\ Len(stack') = Len(stack) + 1
             /\ SubSeq(stack', 1, Len(stack)) = stack
             /\ parsed' = parsed
       /\ Len(stack') < Len(stack) =>
             /\ Len(stack') = Len(stack) - 1
             /\ stack' = SubSeq(stack, 1, Len(stack) - 1)
             /\ parsed' = Append(parsed, stack[Len(stack)].file_id)
       /\ parsed' # parsed => Len(stack') < Len(stack)
       /\ (Len(parsed) >= 2 /\ Path_parent(files[entry].path) # None) =>
             /\ DeclaredTargets(entry) # << >>
             /\ files[parsed[2]].path = LastPushed(DeclaredTargets(entry))
      ]_vars

\* The entry file imports two files and the one declared second imports a
\* third: the pass parsed the second, then the third beneath it, and only
\* then the sibling declared first.
C14_Witness ==
    /\ Len(parsed) = 4
    /\ Cardinality(ParsedSet) = 4
    /\ Len(DeclaredTargets(entry)) = 2
    /\ files[parsed[2]].path = DeclaredTargets(entry)[2]
    /\ files[parsed[3]].path \in ImportTargets(parsed[2])
    /\ files[parsed[4]].path = DeclaredTargets(entry)[1]

\* C15: the entry span Span(0, 0, None) pushed with the entry file is a pure
\* placeholder: it is never the span of a BadPath the resolver returns
\* (neither for a missing parent directory nor for an import that cannot be
\* located), so error translation never gets a span without a file identity.
C15_EntrySpanNeverInError ==
    (outcome.tag = "Err" /\ outcome.val.error = "BadPath") =>
        /\ outcome.val.span # EntrySpan
        /\ outcome.val.span.file_id # None

\* C16: with the entry FileId registered and a provider that never removes
\* files, provider.get is only ever called with a registered FileId: every
\* FileId on the work stack is the entry id or was returned by a successful
\* provider.visit, every FileId popped was registered, and the pass never
\* ends in the "File not found in source provider" panic.
C16_GetOnlyRegistered ==
    /\ \A i \in 1 .. Len(stack) :
          /\ Provider_get(files, stack[i].file_id) # None
          /\ \/ stack[i].file_id = entry
             \/ files[stack[i].file_id].path \in handled
    /\ \A i \in 1 .. Len(parsed) : Provider_get(files, parsed[i]) # None
    /\ cur.file_id # 0 => Provider_get(files, cur.file_id) # None
    /\ outcome.tag # "Panic"

\* A pass got the entry file and two files that provider.visit registered,
\* and ran to the end of the loop.
C16_Witness ==
    /\ pc = "lower"
    /\ stack = << >>
    /\ Cardinality(ParsedSet) >= 3
    /\ \A id \in ParsedSet \ {entry} : files[id].path \in handled

\* C17: every call of parse_translation_unit starts with an empty visited
\* set, a work stack holding only the entry and an empty translation unit,
\* and shares nothing with an earlier call but the append-only provider:
\* the pass run a second time on the same entry and the same files parses
\* the same sequence of files and returns the same outcome.
C17_PassesAreIndependent ==
    /\ (pc = "loop" /\ parsed = << >>) =>
          /\ handled = {}
          /\ stack = <<[file_id |-> entry, span |-> EntrySpan]>>
          /\ unit = TranslationUnit_default
    /\ prev # NoPrev =>
          /\ Len(parsed) <= Len(prev[1].parsed)
          /\ parsed = SubSeq(prev[1].parsed, 1, Len(parsed))
          /\ \A i \in 1 .. Len(prev[1].parsed) :
                Provider_get(files, prev[1].parsed[i]) # None
          /\ pc = "returned" =>
                /\ parsed = prev[1].parsed
                /\ outcome = prev[1].outcome

\* The second call has returned after parsing three files that the first
\* call had registered with the provider.
C17_Witness ==
    /\ prev # NoPrev
    /\ pc = "returned"
    /\ Len(parsed) >= 3
    /\ outcome.tag = "Ok"
    /\ outcome = prev[1].outcome

(***************************************************************************)
(* Claims about multi-unit mode, checked under MultiSpec                   *)
(***************************************************************************)
\* The units of the output that declare an import of this path.
Importers(path) == {i \in 1 .. Len(units) : path \in UnitImports(units[i])}

\* The import graph of the output is a tree: every file is imported by at
\* most one file and nothing imports the entry file (so there is no cycle).
ImportTree ==
    /\ Importers(files[entry].path) = {}
    /\ \A i \in 1 .. Len(units) : Cardinality(Importers(units[i].path)) <= 1

\* C18: in multi-unit mode, when the import graph is a tree, processing the
\* resolver's output in reverse order lowers every imported unit and puts
\* its Module into the dependency map before a unit that imports it is
\* lowered: whenever the orchestrator is at a unit, the Modules of all its
\* imports are in the map, and the pass never ends for a missing Module.
C18_TreeLoweredDependenciesFirst ==
    (pc \in {"mlower", "returned"} /\ stack = << >> /\ cur.parent_path = None
        /\ Len(units) = Len(parsed) /\ ImportTree) =>
        /\ (pc = "mlower" /\ cur.idx <= Len(units)) =>
              UnitImports(NextUnit) \subseteq Lowered
        /\ \A i \in 1 .. Len(modules) :
              \A j \in 1 .. Len(units) :
                  units[j].path = modules[i].path =>
                      UnitImports(units[j]) \subseteq {modules[k].path : k \in 1 .. i - 1}
        /\ outcome.tag = "Err" => outcome.val.error # "MissingModule"

\* main imports lib and lib imports a third file: all three were lowered,
\* the third first and main last, each with its imports in the map.
C18_Witness ==
    /\ pc = "returned"
    /\ outcome.tag = "Ok"
    /\ ImportTree
    /\ Len(units) = 3
    /\ Len(modules) = 3
    /\ modules[3].path = files[entry].path
    /\ UnitImports(units[1]) = {units[2].path}
    /\ UnitImports(units[2]) = {units[3].path}
    /\ modules[1].path = units[3].path

====
